---- MODULE Spec2Model ----
(***************************************************************************)
(* Model of langchain-agent/main.py: the OpenAI-compatible chat endpoint,  *)
(* the rule-based dispatcher (run_agent, simple_query_handler), the four   *)
(* table tools, the Oracle query executor and the SSE response formatter.  *)
(* Texts are strings; Python's str operations are modelled character by    *)
(* character (`in`, lower, split, strip, concatenation).                   *)
(***************************************************************************)
EXTENDS Integers, Sequences, FiniteSets, TLC

\* ------------------------------------------------------------------ bounds
\* Utterances are 1..MaxFragments fragments of Fragments joined by one space.
MaxFragments == 2
\* A conversation (a request body of several messages) holds up to MaxMessages.
MaxMessages == 2

\* ------------------------------------------------------- Python str helpers
Char(s, i) == SubSeq(s, i, i)

\* Python `kw in s` for strings
Contains(kw, s) ==
    \E k \in 1..(Len(s) - Len(kw) + 1) : SubSeq(s, k, k + Len(kw) - 1) = kw

\* Python any(word in s for word in kws)
AnyIn(kws, s) == \E k \in 1..Len(kws) : Contains(kws[k], s)

UpperLetters == "ABCDEFGHIJKLMNOPQRSTUVWXYZ"
LowerLetters == "abcdefghijklmnopqrstuvwxyz"

\* the lower-case letter of each upper-case letter
LowerOf ==
    [c \in {Char(UpperLetters, k) : k \in 1..Len(UpperLetters)} |->
        Char(LowerLetters, CHOOSE k \in 1..Len(UpperLetters) : Char(UpperLetters, k) = c)]

LowerChar(c) == IF c \in DOMAIN LowerOf THEN LowerOf[c] ELSE c

\* str.lower(): every character lower-cased (computed by halves)
RECURSIVE Lower(_)
Lower(s) ==
    IF Len(s) = 0 THEN ""
    ELSE IF Len(s) = 1 THEN LowerChar(s)
    ELSE Lower(SubSeq(s, 1, Len(s) \div 2)) \o Lower(SubSeq(s, Len(s) \div 2 + 1, Len(s)))

IsSpace(c) == c \in {" ", "\n", "\t", "\r"}

\* str.strip()
RECURSIVE LStrip(_)
LStrip(s) ==
    IF Len(s) > 0 /\ IsSpace(Char(s, 1)) THEN LStrip(SubSeq(s, 2, Len(s))) ELSE s

RECURSIVE RStrip(_)
RStrip(s) ==
    IF Len(s) > 0 /\ IsSpace(Char(s, Len(s))) THEN RStrip(SubSeq(s, 1, Len(s) - 1)) ELSE s

Strip(s) == RStrip(LStrip(s))

\* str.split(sep): the segments between the successive, left-to-right,
\* non-overlapping occurrences of sep.
RECURSIVE SplitOn(_, _)
SplitOn(s, sep) ==
    IF ~Contains(sep, s) THEN <<s>>
    ELSE LET k == CHOOSE j \in 1..(Len(s) - Len(sep) + 1) :
                     /\ SubSeq(s, j, j + Len(sep) - 1) = sep
                     /\ \A h \in 1..(j - 1) : SubSeq(s, h, h + Len(sep) - 1) # sep
         IN <<SubSeq(s, 1, k - 1)>> \o SplitOn(SubSeq(s, k + Len(sep), Len(s)), sep)

\* str.split() without argument: the maximal whitespace-free runs of s, in
\* order, none empty
SplitWs(s) ==
    LET starts == {i \in 1..Len(s) :
                      ~IsSpace(Char(s, i)) /\ (i = 1 \/ IsSpace(Char(s, i - 1)))}
        End(i) == CHOOSE j \in i..Len(s) :
                      /\ j = Len(s) \/ IsSpace(Char(s, j + 1))
                      /\ \A h \in i..j : ~IsSpace(Char(s, h))
        Start(k) == CHOOSE i \in starts : Cardinality({j \in starts : j < i}) = k - 1
    IN [k \in 1..Cardinality(starts) |-> SubSeq(s, Start(k), End(Start(k)))]

StartsWith(s, p) == Len(p) <= Len(s) /\ SubSeq(s, 1, Len(p)) = p

\* ------------------------------------------- the environment's outcomes
\* One database round trip either returns a DataFrame (given here by the text
\* DataFrame.to_string() renders) or raises (given by str(e)).
DbOutcomes ==
    { [ok |-> TRUE,  text |-> "   N\n0  7"],
      [ok |-> FALSE, text |-> "ORA-12541: no listener"] }

\* One llm.invoke either returns a message (its .content) or raises.
LlmOutcomes ==
    { [ok |-> TRUE,  content |-> "Hello there!"],
      [ok |-> TRUE,  content |-> ""],
      [ok |-> FALSE, content |-> "connection refused"] }

\* uuid.uuid4() values
Uuids == {"0b1e", "77c2"}

\* ------------------------------------------- 1. OracleConnectionManager
TableContexts == {"users", "orders", "products", "analytics"}

table_credentials ==
    [c \in TableContexts |->
        CASE c = "users"     -> "users_reader"
          [] c = "orders"    -> "orders_reader"
          [] c = "products"  -> "products_reader"
          [] c = "analytics" -> "analytics_reader"]

\* the user name get_connection_string connects with:
\* table_credentials.get(table_context, table_credentials['analytics'])
get_connection_string(table_context) ==
    IF table_context \in DOMAIN table_credentials
    THEN table_credentials[table_context]
    ELSE table_credentials["analytics"]

\* execute_query: one statement run on one connection; every exception is
\* logged and re-raised.  `call` is the statement as it reaches the database,
\* with what the database did (error: str(e) of the exception, "" if none).
execute_query(sql, table_context, db) ==
    [raised |-> ~db.ok,
     value  |-> db.text,
     call   |-> [ok |-> db.ok, sql |-> sql, context |-> table_context,
                 username |-> get_connection_string(table_context),
                 error |-> IF db.ok THEN "" ELSE db.text]]

\* ------------------------------------------- 2. the canned statements
SqlUsersActive == "SELECT COUNT(*) as active_count FROM users WHERE status = 'ACTIVE'"
SqlUsersTotal == "SELECT COUNT(*) as total_users FROM users"
SqlUsersRecent == "SELECT username, email, created_date FROM users WHERE created_date >= SYSDATE - 30 ORDER BY created_date DESC"
SqlUsersAll == "SELECT user_id, username, email, first_name, last_name, status FROM users"

SqlOrdersRecent == "SELECT order_id, user_id, total_amount, order_date, status FROM orders WHERE order_date >= SYSDATE - 7 ORDER BY order_date DESC"
SqlOrdersRevenue == "SELECT SUM(total_amount) as total_revenue, COUNT(*) as order_count FROM orders WHERE status = 'COMPLETED'"
SqlOrdersPending == "SELECT order_id, user_id, total_amount, order_date FROM orders WHERE status = 'PENDING'"
SqlOrdersAll == "SELECT order_id, user_id, product_id, quantity, total_amount, status FROM orders"

SqlProductsLowStock == "SELECT product_name, stock_quantity, price FROM products WHERE stock_quantity < 20"
SqlProductsExpensive == "SELECT product_name, price, category FROM products ORDER BY price DESC"
SqlProductsCategory == "SELECT category, COUNT(*) as product_count FROM products GROUP BY category"
SqlProductsAll == "SELECT product_id, product_name, category, price, stock_quantity FROM products"

SqlAnalyticsRevenue == "SELECT metric_name, metric_value, metric_date FROM sales_analytics WHERE metric_name = 'Daily Revenue'"
SqlAnalyticsConversion == "SELECT metric_name, metric_value, metric_date FROM sales_analytics WHERE metric_name = 'Conversion Rate'"
SqlAnalyticsUserStats == "SELECT metric_name, metric_value FROM sales_analytics WHERE category = 'USERS'"
SqlAnalyticsComprehensive ==
    "\n            SELECT \n                'Total Users' as metric, COUNT(u.user_id) as value FROM users u\n"
    \o "            UNION ALL\n            SELECT \n                'Active Users' as metric, COUNT(u.user_id) as value FROM users u WHERE u.status = 'ACTIVE'\n"
    \o "            UNION ALL\n            SELECT \n                'Total Orders' as metric, COUNT(o.order_id) as value FROM orders o\n"
    \o "            UNION ALL\n            SELECT \n                'Total Revenue' as metric, SUM(o.total_amount) as value FROM orders o WHERE o.status = 'COMPLETED'\n            "
SqlAnalyticsAll == "SELECT metric_name, metric_value, metric_date, category FROM sales_analytics"

SqlDbHealth == "SELECT 1 as test FROM dual"

\* ------------------------------------------- 2. the tools
\* Each tool maps its description to a statement (first test that matches),
\* runs it in its own context, and catches every exception.  A tool's result:
\* text (the returned string), raised (an exception left the tool), calls
\* (the statements it ran).
\* UsersSql reading another column for "recent users"
UsersSqlUpdateDate(query_description) ==
    LET d == Lower(query_description) IN
    IF Contains("active users", d) THEN SqlUsersActive
    ELSE IF Contains("total users", d) \/ Contains("count", d) THEN SqlUsersTotal
    ELSE IF Contains("recent users", d)
         THEN "SELECT username, email, update_date FROM users WHERE update_date >= SYSDATE - 30"
    ELSE SqlUsersAll

UsersSql(query_description) ==
    LET d == Lower(query_description) IN
    IF Contains("active users", d) THEN SqlUsersActive
    ELSE IF Contains("total users", d) \/ Contains("count", d) THEN SqlUsersTotal
    ELSE IF Contains("recent users", d) THEN SqlUsersRecent
    ELSE SqlUsersAll

OrdersSql(query_description) ==
    LET d == Lower(query_description) IN
    IF Contains("recent orders", d) THEN SqlOrdersRecent
    ELSE IF Contains("total sales", d) \/ Contains("revenue", d) THEN SqlOrdersRevenue
    ELSE IF Contains("pending orders", d) THEN SqlOrdersPending
    ELSE SqlOrdersAll

ProductsSql(query_description) ==
    LET d == Lower(query_description) IN
    IF Contains("low stock", d) THEN SqlProductsLowStock
    ELSE IF Contains("expensive", d) \/ Contains("highest price", d) THEN SqlProductsExpensive
    ELSE IF Contains("category", d) THEN SqlProductsCategory
    ELSE SqlProductsAll

AnalyticsSql(query_description) ==
    LET d == Lower(query_description) IN
    IF Contains("revenue", d) THEN SqlAnalyticsRevenue
    ELSE IF Contains("conversion", d) THEN SqlAnalyticsConversion
    ELSE IF Contains("user stats", d) THEN SqlAnalyticsUserStats
    ELSE IF Contains("comprehensive", d) \/ Contains("full report", d) THEN SqlAnalyticsComprehensive
    ELSE SqlAnalyticsAll

\* ToolResult without the except clause: the exception leaves the tool
ToolResultNoExcept(r, okLabel, errLabel) ==
    [text   |-> IF r.raised THEN r.value ELSE okLabel \o r.value,
     raised |-> r.raised,
     calls  |-> <<r.call>>]

\* try: result = execute_query(sql, ctx); return label + result.to_string()
\* except Exception as e: return error label + str(e)
ToolResult(r, okLabel, errLabel) ==
    [text   |-> IF r.raised THEN errLabel \o r.value ELSE okLabel \o r.value,
     raised |-> FALSE,
     calls  |-> <<r.call>>]

query_users_table(query_description, db) ==
    ToolResult(execute_query(UsersSql(query_description), "users", db),
               "Users Query Result:\n", "Error querying users table: ")

query_orders_table(query_description, db) ==
    ToolResult(execute_query(OrdersSql(query_description), "orders", db),
               "Orders Query Result:\n", "Error querying orders table: ")

query_products_table(query_description, db) ==
    ToolResult(execute_query(ProductsSql(query_description), "products", db),
               "Products Query Result:\n", "Error querying products table: ")

query_analytics_dashboard(query_description, db) ==
    ToolResult(execute_query(AnalyticsSql(query_description), "analytics", db),
               "Analytics Query Result:\n", "Error querying analytics: ")

get_weather(location) == "It's always sunny in " \o location \o "."

\* ------------------------------------------- 3. simple_query_handler
ProductsKeywords == <<"product", "inventory", "catalog", "sell", "stock", "item">>
OrdersKeywords == <<"order", "sales", "revenue", "completed", "money", "total">>
UsersKeywords == <<"user", "customer", "account", "client">>
AnalyticsKeywords == <<"analytics", "metrics", "report", "dashboard", "business", "kpi">>

\* The default branch's text.  Each emoji of the source is written as its
\* code point in brackets (one whitespace-free run, as in the source).
HelpText ==
    "I can help you with business data queries! Try asking:\n\n"
    \o "[U+1F4E6] **Products**: \"What products do we sell?\", \"Show me low stock items\", \"List products by category\"\n"
    \o "[U+1F4B0] **Sales**: \"What's our total revenue?\", \"Show pending orders\", \"Recent sales\"\n"
    \o "[U+1F465] **Users**: \"How many customers do we have?\", \"Show active users\", \"Recent user registrations\"\n"
    \o "[U+1F4CA] **Analytics**: \"Give me a business report\", \"Show key metrics\", \"Comprehensive analytics\"\n"
    \o "[U+1F324][U+FE0F] **Weather**: \"What's the weather in Tokyo?\" (demo feature)\n\n"
    \o "Your Oracle database is connected and ready with real data!"

\* the description each table branch hands to its tool
ProductsDescription(prompt_lower) ==
    IF Contains("low stock", prompt_lower) THEN "low stock products"
    ELSE IF Contains("category", prompt_lower) \/ Contains("categories", prompt_lower)
         THEN "products by category"
    ELSE "show all products"

OrdersDescription(prompt_lower) ==
    IF Contains("revenue", prompt_lower) \/ Contains("total", prompt_lower)
       \/ Contains("money", prompt_lower)
    THEN "total revenue from completed orders"
    ELSE IF Contains("pending", prompt_lower) THEN "pending orders"
    ELSE IF Contains("recent", prompt_lower) THEN "recent orders"
    ELSE "show all orders"

\* UsersDescription with another wording of the description for "recent"
UsersDescriptionReworded(prompt_lower) ==
    IF Contains("active", prompt_lower) THEN "active users"
    ELSE IF Contains("count", prompt_lower) \/ Contains("how many", prompt_lower)
         THEN "total users"
    ELSE IF Contains("recent", prompt_lower) THEN "recently active users"
    ELSE "show all users"

UsersDescription(prompt_lower) ==
    IF Contains("active", prompt_lower) THEN "active users"
    ELSE IF Contains("count", prompt_lower) \/ Contains("how many", prompt_lower)
         THEN "total users"
    ELSE IF Contains("recent", prompt_lower) THEN "recent users"
    ELSE "show all users"

AnalyticsDescription(prompt_lower) ==
    IF Contains("comprehensive", prompt_lower) \/ Contains("full", prompt_lower)
    THEN "comprehensive business report"
    ELSE "key metrics"

\* location of the weather branch
WeatherLocation(prompt_lower) ==
    IF Contains("in", prompt_lower)
    THEN LET parts == SplitOn(prompt_lower, "in") IN
         IF Len(parts) > 1 THEN Strip(parts[Len(parts)]) ELSE "your location"
    ELSE "your location"

\* Branch with the Orders test written before the Products test
BranchOrdersFirst(prompt_lower) ==
    IF AnyIn(OrdersKeywords, prompt_lower) THEN "orders"
    ELSE IF AnyIn(ProductsKeywords, prompt_lower) THEN "products"
    ELSE IF AnyIn(UsersKeywords, prompt_lower) THEN "users"
    ELSE IF AnyIn(AnalyticsKeywords, prompt_lower) THEN "analytics"
    ELSE IF Contains("weather", prompt_lower) THEN "weather"
    ELSE "help"

\* the branch of the if/elif chain that runs
Branch(prompt_lower) ==
    IF AnyIn(ProductsKeywords, prompt_lower) THEN "products"
    ELSE IF AnyIn(OrdersKeywords, prompt_lower) THEN "orders"
    ELSE IF AnyIn(UsersKeywords, prompt_lower) THEN "users"
    ELSE IF AnyIn(AnalyticsKeywords, prompt_lower) THEN "analytics"
    ELSE IF Contains("weather", prompt_lower) THEN "weather"
    ELSE "help"

\* a table branch: return prefix + result; an exception leaving the tool is
\* caught by the handler's own except clause
TableBranch(r, prefix, branch) ==
    [text      |-> IF r.raised
                   THEN "Error accessing database: " \o r.text
                        \o "\n\nPlease try a simpler query or check the database connection."
                   ELSE prefix \o r.text,
     raised    |-> FALSE,
     calls     |-> r.calls,
     branch    |-> branch,
     llm_calls |-> <<>>]

NoDbBranch(text, branch) ==
    [text |-> text, raised |-> FALSE, calls |-> <<>>, branch |-> branch, llm_calls |-> <<>>]

simple_query_handler(user_prompt, db) ==
    LET prompt_lower == Lower(user_prompt)
        b == Branch(prompt_lower)
    IN CASE b = "products" ->
              TableBranch(query_products_table(ProductsDescription(prompt_lower), db),
                          "Here are our products:\n\n", b)
         [] b = "orders" ->
              TableBranch(query_orders_table(OrdersDescription(prompt_lower), db),
                          "Here are our orders:\n\n", b)
         [] b = "users" ->
              TableBranch(query_users_table(UsersDescription(prompt_lower), db),
                          "Here are our users:\n\n", b)
         [] b = "analytics" ->
              TableBranch(query_analytics_dashboard(AnalyticsDescription(prompt_lower), db),
                          "Here's your business analytics:\n\n", b)
         [] b = "weather" -> NoDbBranch(get_weather(WeatherLocation(prompt_lower)), b)
         [] OTHER -> NoDbBranch(HelpText, b)

\* ------------------------------------------- 4. run_agent
\* data_keywords with the Weather keyword added to the list
data_keywordsWithWeather ==
    <<"product", "order", "user", "customer", "revenue", "sales", "analytics",
      "report", "inventory", "stock", "weather">>

data_keywords ==
    <<"product", "order", "user", "customer", "revenue", "sales", "analytics",
      "report", "inventory", "stock">>

\* the gate of run_agent
IsDataQuery(user_prompt) == AnyIn(data_keywords, Lower(user_prompt))

\* run_agent that answers with the error text when llm.invoke raises
run_agentNoFallback(user_prompt, llm, llmOut, db) ==
    IF AnyIn(data_keywords, Lower(user_prompt)) THEN simple_query_handler(user_prompt, db)
    ELSE IF llm
         THEN [text |-> llmOut.content, raised |-> FALSE, calls |-> <<>>,
               branch |-> "llm",
               llm_calls |-> <<[ok |-> llmOut.ok, content |-> llmOut.content,
                                prompt |-> user_prompt]>>]
         ELSE simple_query_handler(user_prompt, db)

\* one llm.invoke(prompt) and what it did
LlmCall(prompt, llmOut) ==
    [ok |-> llmOut.ok, content |-> llmOut.content, prompt |-> prompt]

\* llm: whether the module-level ChatOllama client exists; llmOut: what
\* llm.invoke does if it is called
run_agent(user_prompt, llm, llmOut, db) ==
    IF IsDataQuery(user_prompt) THEN simple_query_handler(user_prompt, db)
    ELSE IF llm
         THEN IF llmOut.ok
              THEN [text |-> llmOut.content, raised |-> FALSE, calls |-> <<>>,
                    branch |-> "llm", llm_calls |-> <<LlmCall(user_prompt, llmOut)>>]
              ELSE [simple_query_handler(user_prompt, db)
                        EXCEPT !.llm_calls = <<LlmCall(user_prompt, llmOut)>>]
         ELSE simple_query_handler(user_prompt, db)

\* ------------------------------------------- 5. the FastAPI service
OLLAMA_MODEL == "mistral"

wrap_openai(answer, uuid) ==
    [id      |-> "chatcmpl-" \o uuid,
     object  |-> "chat.completion",
     model   |-> OLLAMA_MODEL,
     choices |-> <<[index |-> 0,
                    message |-> [content |-> answer, role |-> "assistant"],
                    finish_reason |-> "stop"]>>,
     usage   |-> [prompt_tokens |-> 0, completion_tokens |-> 0, total_tokens |-> 0]]

\* LastUserContent scanning from the front: the first user message
RECURSIVE FirstUserContent(_)
FirstUserContent(messages) ==
    IF Len(messages) = 0 THEN ""
    ELSE IF messages[1].role = "user" THEN messages[1].content
    ELSE FirstUserContent(Tail(messages))

\* user_prompt = next((m["content"] for m in reversed(messages)
\*                     if m["role"] == "user"), "")
RECURSIVE LastUserContent(_)
LastUserContent(messages) ==
    IF Len(messages) = 0 THEN ""
    ELSE IF messages[Len(messages)].role = "user" THEN messages[Len(messages)].content
    ELSE LastUserContent(SubSeq(messages, 1, Len(messages) - 1))

\* the events event_stream yields ("data: <json>\n\n" lines)
ContentChunk(word) ==
    [content |-> word \o " ", object |-> "chat.completion.chunk", model |-> OLLAMA_MODEL,
     finish_reason |-> "null", has_content |-> TRUE]

TerminalChunk ==
    [content |-> "", object |-> "chat.completion.chunk", model |-> OLLAMA_MODEL,
     finish_reason |-> "stop", has_content |-> FALSE]

DoneSentinel ==
    [content |-> "", object |-> "[DONE]", model |-> "", finish_reason |-> "null",
     has_content |-> FALSE]

\* ------------------------------------------- the requests of the model
Fragments ==
    { "low stock", "catalog", "category", "categories", "revenue", "total", "pending",
      "sales", "recent", "users", "active", "account", "how many", "Show key metrics",
      "full", "comprehensive", "what's the weather in Tokyo", "weather" }

RECURSIVE JoinSpace(_)
JoinSpace(fs) ==
    IF Len(fs) = 1 THEN fs[1] ELSE fs[1] \o " " \o JoinSpace(Tail(fs))

Utterances ==
    UNION { { JoinSpace(fs) : fs \in [1..n -> Fragments] } : n \in 1..MaxFragments }

Roles == {"user", "assistant", "system"}
TurnContents == {"", "hello", "users"}

\* one message with any utterance, or a conversation of several short turns
SingleMessages == { <<m>> : m \in [content : Utterances \cup {""}, role : Roles] }
Conversations ==
    UNION { [1..n -> [content : TurnContents, role : Roles]] : n \in 2..MaxMessages }

\* request bodies: no "messages" key, or a list of messages
Bodies ==
    { [messages |-> <<>>, has_messages |-> FALSE] }
    \cup { [messages |-> ms, has_messages |-> TRUE] :
             ms \in {<<>>} \cup SingleMessages \cup Conversations }

\* ------------------------------------------- state
VARIABLES
    pc,              \* where the one request of a behaviour stands
    route,           \* the endpoint that was called
    llm,             \* module level: TRUE iff ChatOllama(...) was constructed
    body,            \* chat: the request body
    user_prompt,     \* chat: the utterance handed to run_agent
    stream,          \* chat: bool(body.get("stream", False))
    result,          \* chat: what run_agent did for this request
    answer_text,     \* chat: run_agent's return value
    status,          \* HTTP status of the response, 0 before there is one
    response,        \* JSON body of a non-streamed response
    db_log,          \* every statement execute_query has run, in order
    llm_invocations, \* number of llm.invoke calls made
    words,           \* event_stream: answer_text.split()
    idx,             \* event_stream: number of words emitted and slept after
    yields,          \* event_stream: number of asyncio.sleep yields taken
    emitted          \* event_stream: the events yielded so far, in order

vars == <<pc, route, llm, body, user_prompt, stream, result, answer_text, status,
          response, db_log, llm_invocations, words, idx, yields, emitted>>

NoBody == [messages |-> <<>>, has_messages |-> FALSE]
NoResult == [text |-> "", raised |-> FALSE, calls |-> <<>>, branch |-> "none",
             llm_calls |-> <<>>]
NoResponse == [kind |-> "none"]

Init ==
    /\ pc = "idle"
    /\ route = "none"
    /\ llm \in BOOLEAN
    /\ body = NoBody
    /\ user_prompt = ""
    /\ stream = FALSE
    /\ result = NoResult
    /\ answer_text = ""
    /\ status = 0
    /\ response = NoResponse
    /\ db_log = <<>>
    /\ llm_invocations = 0
    /\ words = <<>>
    /\ idx = 0
    /\ yields = 0
    /\ emitted = <<>>

\* POST /v1/chat/completions, up to the await of run_agent
ChatReceive(b, s) ==
    LET messages == IF b.has_messages THEN b.messages ELSE <<>>
        prompt == LastUserContent(messages)
    IN /\ pc = "idle"
       /\ route' = "chat"
       /\ body' = b
       /\ IF Len(messages) = 0 \/ prompt = ""
          THEN /\ status' = 400
               /\ response' = [kind |-> "error",
                               detail |-> IF Len(messages) = 0
                                          THEN "Missing 'messages' array"
                                          ELSE "No user message"]
               /\ pc' = "done"
               /\ UNCHANGED <<user_prompt, stream>>
          ELSE /\ user_prompt' = prompt
               /\ stream' = s
               /\ pc' = "dispatch"
               /\ UNCHANGED <<status, response>>
       /\ UNCHANGED <<llm, result, answer_text, db_log, llm_invocations, words, idx,
                      yields, emitted>>

\* run_in_executor(None, lambda: run_agent(user_prompt)), awaited; chat does
\* not read the request body again
RunAgent(llmOut, db) ==
    /\ pc = "dispatch"
    /\ result' = run_agent(user_prompt, llm, llmOut, db)
    /\ db_log' = db_log \o result'.calls
    /\ llm_invocations' = llm_invocations + Len(result'.llm_calls)
    /\ IF result'.raised
       THEN /\ status' = 500
            /\ response' = [kind |-> "error", detail |-> result'.text]
            /\ pc' = "done"
            /\ UNCHANGED answer_text
       ELSE /\ answer_text' = result'.text
            /\ pc' = "answered"
            /\ UNCHANGED <<status, response>>
    /\ body' = NoBody
    /\ UNCHANGED <<route, llm, user_prompt, stream, words, idx, yields, emitted>>

\* if not stream: return JSONResponse(wrap_openai(answer_text))
RespondBuffered(uuid) ==
    /\ pc = "answered"
    /\ ~stream
    /\ status' = 200
    /\ response' = [kind |-> "chat.completion", json |-> wrap_openai(answer_text, uuid)]
    /\ pc' = "done"
    /\ user_prompt' = ""
    /\ result' = NoResult
    /\ UNCHANGED <<route, llm, body, stream, answer_text, db_log, llm_invocations, words, idx,
                   yields, emitted>>

\* return StreamingResponse(event_stream(), media_type="text/event-stream");
\* chat's locals are gone, event_stream keeps answer_text
RespondStreaming ==
    /\ pc = "answered"
    /\ stream
    /\ status' = 200
    /\ response' = [kind |-> "text/event-stream"]
    /\ pc' = "stream_start"
    /\ user_prompt' = ""
    /\ result' = NoResult
    /\ UNCHANGED <<route, llm, body, stream, answer_text, db_log, llm_invocations, words, idx,
                   yields, emitted>>

\* event_stream: words = answer_text.split()
StreamSplit ==
    /\ pc = "stream_start"
    /\ words' = SplitWs(answer_text)
    /\ idx' = 0
    /\ pc' = "stream_loop"
    /\ UNCHANGED <<route, llm, body, user_prompt, stream, result, answer_text, status,
                   response, db_log, llm_invocations, yields, emitted>>

\* StreamEmitWord going on to the next word without the sleep
StreamEmitWordNoSleep ==
    /\ pc = "stream_loop"
    /\ idx < Len(words)
    /\ emitted' = Append(emitted, ContentChunk(words[idx + 1]))
    /\ idx' = idx + 1
    /\ UNCHANGED <<pc, route, llm, body, user_prompt, stream, result, answer_text, status,
                   response, db_log, llm_invocations, words, yields>>

\* event_stream: yield the chunk of the next word
StreamEmitWord ==
    /\ pc = "stream_loop"
    /\ idx < Len(words)
    /\ emitted' = Append(emitted, ContentChunk(words[idx + 1]))
    /\ pc' = "stream_sleep"
    /\ UNCHANGED <<route, llm, body, user_prompt, stream, result, answer_text, status,
                   response, db_log, llm_invocations, words, idx, yields>>

\* event_stream: await asyncio.sleep(0.01)
StreamSleep ==
    /\ pc = "stream_sleep"
    /\ yields' = yields + 1
    /\ idx' = idx + 1
    /\ pc' = "stream_loop"
    /\ UNCHANGED <<route, llm, body, user_prompt, stream, result, answer_text, status,
                   response, db_log, llm_invocations, words, emitted>>

\* event_stream: after the loop, yield the terminal chunk
StreamEmitTerminal ==
    /\ pc = "stream_loop"
    /\ idx = Len(words)
    /\ emitted' = Append(emitted, TerminalChunk)
    /\ pc' = "stream_sentinel"
    /\ UNCHANGED <<route, llm, body, user_prompt, stream, result, answer_text, status,
                   response, db_log, llm_invocations, words, idx, yields>>

\* event_stream: yield "data: [DONE]\n\n"
StreamEmitDone ==
    /\ pc = "stream_sentinel"
    /\ emitted' = Append(emitted, DoneSentinel)
    /\ pc' = "done"
    /\ UNCHANGED <<route, llm, body, user_prompt, stream, result, answer_text, status,
                   response, db_log, llm_invocations, words, idx, yields>>

\* an endpoint that answers in one step with `resp`, having run `calls`
OneStep(name, resp, calls) ==
    /\ pc = "idle"
    /\ route' = name
    /\ status' = 200
    /\ response' = resp
    /\ db_log' = db_log \o calls
    /\ pc' = "done"
    /\ UNCHANGED <<llm, body, user_prompt, stream, result, answer_text, llm_invocations,
                   words, idx, yields, emitted>>

\* GET /health (demo_mode is DEMO_MODE of the environment)
Health(demo_mode) ==
    OneStep("health", [status |-> "ok", kind |-> "health", demo_mode |-> demo_mode], <<>>)

\* GET /v1/models
ListModels ==
    OneStep("models", [kind |-> "list", data |-> <<"openchat", "mistral">>], <<>>)

\* GET /db-health
DbHealth(db) ==
    LET r == execute_query(SqlDbHealth, "analytics", db) IN
    OneStep("db-health",
            IF r.raised
            THEN [status |-> "error", error |-> r.value, kind |-> "db-health",
                  database |-> "disconnected"]
            ELSE [status |-> "ok", error |-> "", kind |-> "db-health",
                  database |-> "connected"],
            <<r.call>>)

\* the debug endpoints: a tool called with a canned description
TestEndpoint(name, r) ==
    OneStep(name,
            IF r.raised THEN [status |-> "error", text |-> r.text, kind |-> "test"]
            ELSE [status |-> "ok", text |-> r.text, kind |-> "test"],
            r.calls)

TestProducts(db) == TestEndpoint("test-products", query_products_table("show all products", db))
TestOrders(db) == TestEndpoint("test-orders", query_orders_table("show all orders", db))
TestUsers(db) == TestEndpoint("test-users", query_users_table("show all users", db))
TestAnalytics(db) ==
    TestEndpoint("test-analytics", query_analytics_dashboard("comprehensive business report", db))

\* a client posts a chat request (asked only while no request is in progress)
Chat == pc = "idle" /\ \E b \in Bodies, s \in BOOLEAN : ChatReceive(b, s)

Next ==
    \/ Chat
    \/ \E llmOut \in LlmOutcomes, db \in DbOutcomes : RunAgent(llmOut, db)
    \/ \E uuid \in Uuids : RespondBuffered(uuid)
    \/ RespondStreaming
    \/ StreamSplit
    \/ StreamEmitWord
    \/ StreamSleep
    \/ StreamEmitTerminal
    \/ StreamEmitDone
    \/ \E d \in BOOLEAN : Health(d)
    \/ ListModels
    \/ \E db \in DbOutcomes : DbHealth(db)
    \/ \E db \in DbOutcomes : TestProducts(db)
    \/ \E db \in DbOutcomes : TestOrders(db)
    \/ \E db \in DbOutcomes : TestUsers(db)
    \/ \E db \in DbOutcomes : TestAnalytics(db)

Spec == Init /\ [][Next]_vars

\* =========================================================== the claims
\* The keyword sets and the priority order as the specification gives them.
CategoryOrder == <<"products", "orders", "users", "analytics", "weather">>

CategoryKeywords ==
    [c \in {"products", "orders", "users", "analytics", "weather"} |->
        CASE c = "products"  -> {"product", "inventory", "catalog", "sell", "stock", "item"}
          [] c = "orders"    -> {"order", "sales", "revenue", "completed", "money", "total"}
          [] c = "users"     -> {"user", "customer", "account", "client"}
          [] c = "analytics" -> {"analytics", "metrics", "report", "dashboard", "business", "kpi"}
          [] c = "weather"   -> {"weather"}]

TableCategories == {"products", "orders", "users", "analytics"}

Matches(c, p) == \E kw \in CategoryKeywords[c] : Contains(kw, p)

\* the utterance of the request, lower-cased
Utterance == Lower(user_prompt)

\* run_agent has returned and chat has not yet answered
Answered == pc = "answered"

\* simple_query_handler ran for this request
HandlerRan == Answered /\ result.branch \notin {"llm", "none"}

\* ---- C1: the branch simple_query_handler takes is the earliest category, in
\* the order Products, Orders, Users, Analytics, Weather, one of whose keywords
\* occurs in the lower-cased utterance; the help (Conversational) branch is
\* taken only when no keyword of any set occurs.
C1_FirstMatchWins ==
    HandlerRan =>
        LET p == Utterance
            hits == {i \in 1..Len(CategoryOrder) : Matches(CategoryOrder[i], p)}
        IN IF hits = {}
           THEN result.branch = "help"
           ELSE result.branch = CategoryOrder[CHOOSE i \in hits : \A j \in hits : i <= j]

\* an utterance with a Products and an Orders keyword was handled as Products
C1_Witness ==
    /\ HandlerRan
    /\ Contains("catalog", Utterance)
    /\ Contains("revenue", Utterance)
    /\ result.branch = "products"

\* ---- C2: every utterance that contains a keyword of the Products, Orders,
\* Users or Analytics set passes run_agent's gate: it is answered by the
\* matching table handler, with one statement run, and the language model is
\* not invoked, whether or not one is configured.
C2_GateIsUnionOfTableKeywords ==
    (Answered /\ \E c \in TableCategories : Matches(c, Utterance)) =>
        /\ result.branch \in TableCategories
        /\ Len(result.calls) = 1
        /\ result.llm_calls = <<>>

\* ---- C3: an utterance with no keyword of any of the five sets is answered
\* with exactly the language model's reply when a model is configured and its
\* call succeeds, and otherwise with exactly the help text; the database is
\* not queried in either case.
C3_NoKeywordAnswer ==
    (Answered /\ \A i \in 1..Len(CategoryOrder) : ~Matches(CategoryOrder[i], Utterance)) =>
        /\ result.calls = <<>>
        /\ db_log = <<>>
        /\ IF llm
           THEN /\ Len(result.llm_calls) = 1
                /\ result.llm_calls[1].prompt = user_prompt
                /\ answer_text = IF result.llm_calls[1].ok
                                 THEN result.llm_calls[1].content
                                 ELSE HelpText
           ELSE /\ result.llm_calls = <<>>
                /\ answer_text = HelpText

\* a keyword-free utterance whose language-model call raised got the help text
C3_Witness ==
    /\ Answered
    /\ \A i \in 1..Len(CategoryOrder) : ~Matches(CategoryOrder[i], Utterance)
    /\ llm
    /\ Len(result.llm_calls) = 1
    /\ ~result.llm_calls[1].ok
    /\ answer_text = HelpText

\* ---- C4: an utterance handled by one of the four table branches has exactly
\* one statement passed to the Query Executor, in that handler's own context,
\* and it is the template the first matching sub-intent test names (Products:
\* "low stock", "category"/"categories", else the catalog; Orders: "revenue"/
\* "total"/"money", "pending", "recent", else all orders; Users: "active",
\* "count"/"how many", "recent", else the listing; Analytics: "comprehensive"/
\* "full", else the key metrics).
SubIntentTemplate(c, p) ==
    CASE c = "products" ->
           IF Contains("low stock", p) THEN SqlProductsLowStock
           ELSE IF Contains("category", p) \/ Contains("categories", p) THEN SqlProductsCategory
           ELSE SqlProductsAll
      [] c = "orders" ->
           IF Contains("revenue", p) \/ Contains("total", p) \/ Contains("money", p)
           THEN SqlOrdersRevenue
           ELSE IF Contains("pending", p) THEN SqlOrdersPending
           ELSE IF Contains("recent", p) THEN SqlOrdersRecent
           ELSE SqlOrdersAll
      [] c = "users" ->
           IF Contains("active", p) THEN SqlUsersActive
           ELSE IF Contains("count", p) \/ Contains("how many", p) THEN SqlUsersTotal
           ELSE IF Contains("recent", p) THEN SqlUsersRecent
           ELSE SqlUsersAll
      [] c = "analytics" ->
           IF Contains("comprehensive", p) \/ Contains("full", p)
           THEN SqlAnalyticsComprehensive
           ELSE SqlAnalyticsAll

C4_OneTemplatePerTableIntent ==
    (HandlerRan /\ result.branch \in TableCategories) =>
        /\ Len(result.calls) = 1
        /\ result.calls[1].context = result.branch
        /\ result.calls[1].sql = SubIntentTemplate(result.branch, Utterance)

\* a Users utterance with "recent" (and neither "active" nor "count") ran the
\* last-30-days statement in the users context
C4_Witness ==
    /\ HandlerRan
    /\ result.branch = "users"
    /\ Contains("recent", Utterance)
    /\ Len(result.calls) = 1
    /\ result.calls[1].sql = SqlUsersRecent
    /\ result.calls[1].context = "users"

\* ---- C5: a failure of the Query Executor is caught by the tool and becomes
\* the answer text: the handler's heading, then the tool's error label, then
\* the cause.  Nothing propagates out of run_agent (no HTTP 500), the request
\* completes with status 200, and the statement was attempted once only.
ErrorLabel(c) ==
    CASE c = "products"  -> "Error querying products table: "
      [] c = "orders"    -> "Error querying orders table: "
      [] c = "users"     -> "Error querying users table: "
      [] c = "analytics" -> "Error querying analytics: "

Heading(c) ==
    CASE c = "products"  -> "Here are our products:\n\n"
      [] c = "orders"    -> "Here are our orders:\n\n"
      [] c = "users"     -> "Here are our users:\n\n"
      [] c = "analytics" -> "Here's your business analytics:\n\n"

\* the chat request's database call failed
DbFailed == route = "chat" /\ \E k \in 1..Len(db_log) : ~db_log[k].ok

C5_DbFailureBecomesText ==
    /\ status # 500
    /\ ~result.raised
    /\ DbFailed =>
          /\ Len(db_log) = 1
          /\ db_log[1].context \in TableCategories
          /\ answer_text = Heading(db_log[1].context) \o ErrorLabel(db_log[1].context)
                               \o db_log[1].error
          /\ pc = "done" => status = 200

\* a chat request whose statement failed was answered with status 200
C5_Witness ==
    /\ DbFailed
    /\ pc = "done"
    /\ status = 200
    /\ db_log[1].error = "ORA-12541: no listener"

\* ---- C6: a chat request whose `messages` is missing, empty or without a
\* message of role "user" is answered 400 and nothing else happens for it
\* (run_agent is not invoked: no statement is run, no model call is made);
\* a request that is dispatched is dispatched with the content of the last
\* message of role "user".
NoUserMessage(b) ==
    \/ ~b.has_messages
    \/ Len(b.messages) = 0
    \/ \A k \in 1..Len(b.messages) : b.messages[k].role # "user"

LastUserIndex(ms) ==
    CHOOSE k \in 1..Len(ms) :
        /\ ms[k].role = "user"
        /\ \A j \in (k + 1)..Len(ms) : ms[j].role # "user"

C6_RejectOrDispatchLastUser ==
    /\ [][(pc = "idle" /\ route' = "chat") =>
            IF NoUserMessage(body')
            THEN status' = 400 /\ pc' = "done"
            ELSE \/ status' = 400 /\ pc' = "done"
                 \/ /\ pc' = "dispatch"
                    /\ user_prompt' = body'.messages[LastUserIndex(body'.messages)].content
         ]_vars
    /\ [](status = 400 =>
            /\ pc = "done"
            /\ result = NoResult
            /\ db_log = <<>>
            /\ llm_invocations = 0
            /\ emitted = <<>>)

\* a request with two user messages of different contents was dispatched
\* with the later one
C6_Witness ==
    /\ pc = "dispatch"
    /\ Len(body.messages) = 2
    /\ body.messages[1].role = "user"
    /\ body.messages[2].role = "user"
    /\ body.messages[1].content = "hello"
    /\ body.messages[2].content = "users"
    /\ user_prompt = "users"

\* a request without a user message was rejected
C6_Rejected ==
    /\ route = "chat"
    /\ status = 400
    /\ Len(body.messages) = 2
    /\ NoUserMessage(body)

\* the contents of the content chunks emitted so far, joined in emission order
RECURSIVE StreamedContent(_)
StreamedContent(events) ==
    IF Len(events) = 0 THEN ""
    ELSE IF Len(events) = 1
    THEN (IF events[1].has_content THEN events[1].content ELSE "")
    ELSE StreamedContent(SubSeq(events, 1, Len(events) \div 2))
         \o StreamedContent(SubSeq(events, Len(events) \div 2 + 1, Len(events)))

\* the stream of the request has ended
StreamEnded == route = "chat" /\ stream /\ pc = "done" /\ status = 200

\* ---- C7: joining the delta.content fields of the streamed chunks, in
\* emission order, gives exactly the string buffered mode returns as
\* choices[0].message.content for the same answer text.
C7_StreamEqualsBuffered ==
    StreamEnded =>
        \A uuid \in Uuids :
            StreamedContent(emitted) = wrap_openai(answer_text, uuid).choices[1].message.content

\* ---- C8: the streamed events are, in this order: one content chunk per
\* whitespace-separated token of the answer, in the order of the split, each
\* with finish reason null and each followed by a yield before the next event;
\* then one terminal chunk with empty delta and finish reason "stop"; then the
\* [DONE] sentinel, last.  Nothing is emitted before run_agent has returned
\* and the response has started.
ExpectedEvents(answer) ==
    LET tokens == SplitWs(answer) IN
    [k \in 1..(Len(tokens) + 2) |->
        IF k <= Len(tokens)
        THEN [content |-> tokens[k] \o " ", object |-> "chat.completion.chunk",
              model |-> "mistral", finish_reason |-> "null", has_content |-> TRUE]
        ELSE IF k = Len(tokens) + 1
        THEN [content |-> "", object |-> "chat.completion.chunk", model |-> "mistral",
              finish_reason |-> "stop", has_content |-> FALSE]
        ELSE [content |-> "", object |-> "[DONE]", model |-> "", finish_reason |-> "null",
              has_content |-> FALSE]]

Streaming == pc \in {"stream_start", "stream_loop", "stream_sleep", "stream_sentinel"}

C8_StreamShape ==
    /\ emitted # <<>> => (route = "chat" /\ stream /\ status = 200
                          /\ (Streaming \/ pc = "done"))
    /\ (Streaming \/ StreamEnded) =>
          LET full == ExpectedEvents(answer_text)
              n == Len(full) - 2
          IN /\ Len(emitted) <= Len(full)
             /\ emitted = SubSeq(full, 1, Len(emitted))
             /\ pc = "stream_start" => emitted = <<>>
             /\ pc = "stream_loop" => (Len(emitted) <= n /\ yields = Len(emitted))
             /\ pc = "stream_sleep" => (Len(emitted) <= n /\ yields = Len(emitted) - 1)
             /\ pc = "stream_sentinel" => (Len(emitted) = n + 1 /\ yields = n)
             /\ pc = "done" => (emitted = full /\ yields = n)

\* a stream of an answer of several tokens has ended
C8_Witness ==
    /\ StreamEnded
    /\ Len(emitted) >= 4
    /\ yields = Len(emitted) - 2
    /\ emitted[Len(emitted)].object = "[DONE]"

\* the stream of the empty answer has ended
C8_EmptyAnswer == StreamEnded /\ answer_text = "" /\ Len(emitted) = 2

\* ---- C9: an utterance classified as Weather (it contains "weather" and no
\* table keyword) is answered "It's always sunny in <location>.", where
\* <location> is the trimmed last segment of the lower-cased utterance split
\* on "in", or "your location"; the answer depends on the utterance alone, not
\* on the language model, and the database is not queried.
WeatherUtterance ==
    /\ Matches("weather", Utterance)
    /\ \A c \in TableCategories : ~Matches(c, Utterance)

ClaimedLocation(p) ==
    IF Contains("in", p)
    THEN LET parts == SplitOn(p, "in") IN Strip(parts[Len(parts)])
    ELSE "your location"

C9_WeatherAnswerFixed ==
    (Answered /\ WeatherUtterance) =>
        /\ answer_text = "It's always sunny in " \o ClaimedLocation(Utterance) \o "."
        /\ result.calls = <<>>
        /\ db_log = <<>>

\* the same statement for requests that reached simple_query_handler
C9_WeatherAnswerOfHandler ==
    (HandlerRan /\ WeatherUtterance) =>
        /\ answer_text = "It's always sunny in " \o ClaimedLocation(Utterance) \o "."
        /\ result.calls = <<>>
        /\ db_log = <<>>

\* ---- C10 (as claimed): no statement that contains DROP, DELETE, UPDATE,
\* INSERT, ALTER or CREATE, in any case and anywhere in it, is ever run
\* against the database.
MutationKeywords == {"drop", "delete", "update", "insert", "alter", "create"}

\* the states in which db_log has just grown
JustRan == pc = "answered" \/ (pc = "done" /\ route \notin {"chat", "none"})

C10_NoMutationKeywordRun ==
    JustRan =>
        \A k \in 1..Len(db_log) :
            db_log[k].ok => \A kw \in MutationKeywords : ~Contains(kw, Lower(db_log[k].sql))

\* ---- C10 (amended): every statement run against the database is a SELECT
\* that contains none of DROP, DELETE, UPDATE, INSERT, ALTER, and contains
\* CREATE only inside the column name created_date.
RECURSIVE Without(_, _)
Without(s, part) ==
    LET segs == SplitOn(s, part) IN
    IF Len(segs) = 1 THEN s ELSE Head(segs) \o Without(SubSeq(s, Len(Head(segs)) + Len(part) + 1, Len(s)), part)

C10_OnlyReadStatementsRun ==
    JustRan =>
        \A k \in 1..Len(db_log) :
            LET sql == Lower(db_log[k].sql) IN
            /\ StartsWith(Strip(sql), "select")
            /\ \A kw \in MutationKeywords : ~Contains(kw, Without(sql, "created_date"))

\* the last-30-days users statement, which names created_date, was run
C10_Witness ==
    /\ pc = "answered"
    /\ Len(db_log) = 1
    /\ db_log[1].sql = SqlUsersRecent
    /\ db_log[1].ok
    /\ Contains("create", Lower(db_log[1].sql))

\* ---- C11: every keyword of run_agent's gate list is a keyword of one of the
\* four table branches of simple_query_handler; so an utterance that passes
\* the gate is answered by one of the four table branches with exactly one
\* Query Executor call, and never by the Weather branch, the help text or the
\* language model.
TableKeywordLists == <<ProductsKeywords, OrdersKeywords, UsersKeywords, AnalyticsKeywords>>

Gated == Answered /\ AnyIn(data_keywords, Utterance)

C11_GatedIsTableQuery ==
    /\ \A i \in 1..Len(data_keywords) :
           \E t \in 1..Len(TableKeywordLists) :
               \E j \in 1..Len(TableKeywordLists[t]) :
                   TableKeywordLists[t][j] = data_keywords[i]
    /\ Gated =>
           /\ result.branch \in TableCategories
           /\ Len(result.calls) = 1
           /\ db_log = result.calls
           /\ result.llm_calls = <<>>
           /\ llm_invocations = 0

\* with a language model configured, an utterance with "weather" and a gate
\* keyword was answered by a table branch
C11_Witness ==
    /\ Gated
    /\ llm
    /\ Contains("weather", Utterance)
    /\ result.branch \in TableCategories
    /\ Len(db_log) = 1

====
